---- MODULE Spec2Model ----
(***************************************************************************)
(* Verification model of the storyboard generator's orchestration core:   *)
(*   - callWithRetry            (services/geminiService.ts)                *)
(*   - generateStoryboardScenes (services/geminiService.ts)                *)
(*   - the token ledger: consumeTokens, deductTokensForImage and the       *)
(*     payment webhook handler.                                            *)
(* Each subsystem has its own specification over the shared variables.    *)
(***************************************************************************)
EXTENDS Integers, Sequences, FiniteSets, TLC

VARIABLES
    \* ---- callWithRetry ----
    script,       \* errors the wrapped operation throws on its first calls
    final,        \* what the operation does once the script is used up
    rpc,          \* position of the wrapper: call | wait | returned | thrown
    retries,      \* parameter `retries` of the current recursive call
    delay,        \* parameter `delay` of the current recursive call
    invocations,  \* number of times fn() has been invoked
    waits,        \* number of setTimeout delays awaited
    waited,       \* sum of the delays awaited, in ms
    outcome,      \* what the wrapper returned or threw
    \* ---- generateStoryboardScenes ----
    totalSceneCount,  \* parameter totalSceneCount
    i,            \* loop variable of the batch loop
    bpc,          \* position of the job: idle | loop | calling | done | failed
    allScenes,    \* the accumulated scenes
    prompts,      \* one record per prompt built, in the order built
    progress,     \* arguments of the onProgress calls, in order
    jobResult,    \* what the job returned or threw
    scenes,       \* the caller's scene list (App state `scenes`)
    \* ---- token ledger (the account store and the operations on it) ----
    balance,      \* users.token_balance of the account
    planTier,     \* users.plan_tier of the account
    balance0,     \* the balance the behaviour started with
    uniqueEventIds, \* whether stripe_events rejects a second row of an event id
    stripeEvents, \* rows of table stripe_events, in insertion order
    transactions, \* rows of table token_transactions, in insertion order
    lpc,          \* per task: the store call the task is about to make
    loc,          \* per task: the local variables of the running operation
    hist,         \* one record per completed operation, in completion order
    opsStarted,   \* number of operations (debits, webhook deliveries) started
    faults,       \* number of store calls that returned an error
    \* ---- generateImagesForAllCharacters ----
    updatedChars, \* the working copy of the characters
    failing,      \* the units whose generateCharacterReference call rejects
    ci,           \* loop variable of the chunk loop
    running,      \* the units of the current chunk whose callback is pending
    characters,   \* App state `characters` (the last setCharacters argument)
    ppc,          \* position of the job: idle | loop | chunk | returned | thrown
    \* ---- ImageGenerator: generateSingle, startBatchGeneration ----
    generatedImage,    \* per scene: whether the scene has a generatedImage
    generatingIds,     \* component state generatingIds
    stopSignalRef,     \* stopSignalRef.current
    isBatchGenerating, \* component state isBatchGenerating
    userTokens,        \* user.tokens of the auth context
    run,               \* per batch run: its closure and its position
    units              \* one record per finished generateSingle call

retryVars == <<script, final, rpc, retries, delay, invocations, waits, waited, outcome>>

batchVars == <<totalSceneCount, i, bpc, allScenes, prompts, progress, jobResult, scenes>>

ledgerVars == <<balance, planTier, balance0, uniqueEventIds, stripeEvents, transactions,
                lpc, loc, hist, opsStarted, faults>>

portraitVars == <<updatedChars, failing, ci, running, characters, ppc>>

imageVars == <<generatedImage, generatingIds, stopSignalRef, isBatchGenerating,
               userTokens, run, units>>

clientVars == <<portraitVars, imageVars>>

vars == <<retryVars, batchVars, ledgerVars, clientVars>>

(***************************************************************************)
(* Bounds                                                                  *)
(***************************************************************************)
MaxFails == 5
MaxT == 45
MaxOps == 3
MaxConcurrentOps == 2
MaxFaults == 1
MaxDeliveries == 2
MaxUnits == 7
MaxScenes == 3

(***************************************************************************)
(* JavaScript values of the error fields the wrapper inspects             *)
(***************************************************************************)
Absent == [t |-> "absent", n |-> 0, s |-> ""]
Num(k) == [t |-> "num", n |-> k, s |-> ""]
Str(x) == [t |-> "str", n |-> 0, s |-> x]

\* JavaScript truthiness of a field value
Truthy(v) == \/ v.t = "num" /\ v.n # 0
             \/ v.t = "str" /\ v.s # ""

\* a || b
OrElse(a, b) == IF Truthy(a) THEN a ELSE b

\* String.prototype.toLowerCase on the words that occur in the messages
ToLower(w) ==
    CASE w = "Overloaded"  -> "overloaded"
      [] w = "UNAVAILABLE" -> "unavailable"
      [] w = "Unavailable" -> "unavailable"
      [] w = "Bad"         -> "bad"
      [] w = "Request"     -> "request"
      [] w = "Too"         -> "too"
      [] w = "Many"        -> "many"
      [] w = "Requests"    -> "requests"
      [] w = "Model"       -> "model"
      [] OTHER             -> w

\* decimal text of the numbers that occur as status codes
NumText(k) ==
    CASE k = 503 -> "503"
      [] k = 429 -> "429"
      [] k = 400 -> "400"
      [] k = 500 -> "500"
      [] OTHER   -> "0"

\* the words JSON.stringify writes for one field value
FieldWords(v) ==
    IF v.t = "num" THEN <<NumText(v.n)>>
    ELSE IF v.t = "str" THEN <<v.s>>
    ELSE <<>>

\* an error object: the four places a status can sit in, and its message
\* (a sequence of words; the empty sequence is a missing message)
MkError(status, code, respStatus, innerCode, message) ==
    [status |-> status, code |-> code, respStatus |-> respStatus,
     innerCode |-> innerCode, message |-> message]

NoError == MkError(Absent, Absent, Absent, Absent, <<>>)

E503        == MkError(Num(503), Absent, Absent, Absent, <<>>)
E429        == MkError(Absent, Num(429), Absent, Absent, <<"Too", "Many", "Requests">>)
EUnavail    == MkError(Absent, Absent, Absent, Str("UNAVAILABLE"), <<"Bad", "Request">>)
EOverloaded == MkError(Absent, Absent, Num(500), Absent, <<"Model", "Overloaded">>)
E400        == MkError(Num(400), Absent, Absent, Absent, <<"Bad", "Request">>)
EParse      == MkError(Absent, Absent, Absent, Absent, <<"Bad", "Model">>)

Errors == {E503, E429, EUnavail, EOverloaded, E400, EParse}

\* error.status || error.code || error.response?.status || error.error?.code
StatusCode(e) == OrElse(e.status, OrElse(e.code, OrElse(e.respStatus, e.innerCode)))

\* JSON.stringify(error), as the words of its fields
Stringify(e) ==
    FieldWords(e.status) \o FieldWords(e.code) \o FieldWords(e.respStatus)
        \o FieldWords(e.innerCode)

\* (error.message || JSON.stringify(error)).toLowerCase()
Msg(e) ==
    LET raw == IF e.message # <<>> THEN e.message ELSE Stringify(e)
    IN  [k \in 1..Len(raw) |-> ToLower(raw[k])]

\* msg.includes(word)
Includes(m, word) == \E k \in 1..Len(m) : m[k] = word

IsRetryable(e) ==
    LET statusCode == StatusCode(e)
        msg == Msg(e)
    IN  \/ statusCode = Num(503)
        \/ statusCode = Num(429)
        \/ statusCode = Str("UNAVAILABLE")
        \/ Includes(msg, "overloaded")
        \/ Includes(msg, "unavailable")
        \/ Includes(msg, "503")

\* a default budget two retries short
ShortRetries == 5 - 2

DefaultRetries == 5
DefaultDelay == 3000

\* the condition of the `if` in the catch block
ShouldRetryOneLess(r, e) == r > 1 /\ IsRetryable(e)

ShouldRetryAlways(r, e) == r > 0

ShouldRetry(r, e) == r > 0 /\ IsRetryable(e)

(***************************************************************************)
(* The wrapped operation fn                                                *)
(***************************************************************************)
Results == {"resA", "resB"}

Ok(v)    == [kind |-> "ok", val |-> v, err |-> NoError]
Failed(e) == [kind |-> "err", val |-> "", err |-> e]
Nothing  == [kind |-> "none", val |-> "", err |-> NoError]

\* what the n-th invocation of fn does
FnOutcome(n) ==
    IF n <= Len(script) THEN Failed(script[n]) ELSE final

Scripts == UNION {[1..n -> Errors] : n \in 0..MaxFails}

Finals == {Ok(v) : v \in Results} \cup {Failed(E503)}

(***************************************************************************)
(* The parts of the state a specification does not use stay at rest        *)
(***************************************************************************)
Tasks == {1, 2}

NoEvent ==
    [id |-> "", type |-> "", userId |-> FALSE, plan |-> "", tokensAmount |-> "",
     amountRefunded |-> 0, hasCharges |-> FALSE, intent |-> ""]

IdleLoc ==
    [op |-> "none", ev |-> NoEvent, amount |-> 0, read |-> 0, readTier |-> "",
     tokensToAdd |-> 0, maxBalance |-> 0, final |-> 0, newTier |-> "",
     tierAfter |-> "", err |-> "", wrote |-> FALSE, changed |-> FALSE, s0 |-> 0]

BatchIdle ==
    /\ totalSceneCount = 0
    /\ i = 0
    /\ bpc = "idle"
    /\ allScenes = <<>>
    /\ prompts = <<>>
    /\ progress = <<>>
    /\ jobResult = Nothing
    /\ scenes = <<>>

LedgerIdle ==
    /\ balance = 0
    /\ planTier = "free"
    /\ balance0 = 0
    /\ uniqueEventIds = TRUE
    /\ stripeEvents = <<>>
    /\ transactions = <<>>
    /\ lpc = [p \in Tasks |-> "idle"]
    /\ loc = [p \in Tasks |-> IdleLoc]
    /\ hist = <<>>
    /\ opsStarted = 0
    /\ faults = 0

PortraitIdle ==
    /\ updatedChars = <<>>
    /\ failing = {}
    /\ ci = 0
    /\ running = {}
    /\ characters = <<>>
    /\ ppc = "idle"

\* a batch run that has not been started; stopRequested, stopAt and
\* callsAfterStop record the history of the run: whether stopBatchGeneration
\* was called during it, the unit then in flight, and the generation calls it
\* started for later units
IdleRun ==
    [pc |-> "idle", scenesToGen |-> <<>>, i |-> 0, tokens |-> 0, generatingIds |-> {},
     validated |-> FALSE, generated |-> FALSE, debitCalls |-> 0,
     stopRequested |-> FALSE, stopAt |-> 0,
     callsAfterStop |-> 0]

ImageIdle ==
    /\ generatedImage = <<>>
    /\ generatingIds = {}
    /\ stopSignalRef = FALSE
    /\ isBatchGenerating = FALSE
    /\ userTokens = 0
    /\ run = [r \in Tasks |-> IdleRun]
    /\ units = <<>>

ClientIdle == PortraitIdle /\ ImageIdle

(***************************************************************************)
(* callWithRetry(fn, retries = 5, delay = 3000)                            *)
(***************************************************************************)
RetryInit ==
    /\ script \in Scripts
    /\ final \in Finals
    /\ rpc = "call"
    /\ retries = DefaultRetries
    /\ delay = DefaultDelay
    /\ invocations = 0
    /\ waits = 0
    /\ waited = 0
    /\ outcome = Nothing
    /\ BatchIdle
    /\ LedgerIdle
    /\ ClientIdle

\* `return await fn()` completes normally
AttemptOk(out) ==
    /\ rpc = "call"
    /\ out.kind = "ok"
    /\ invocations' = invocations + 1
    /\ outcome' = out
    /\ rpc' = "returned"
    /\ UNCHANGED <<script, final, retries, delay, waits, waited>>

\* fn() rejects: the catch block
AttemptFail(out) ==
    /\ rpc = "call"
    /\ out.kind = "err"
    /\ invocations' = invocations + 1
    /\ IF ShouldRetry(retries, out.err)
         THEN /\ rpc' = "wait"
              /\ UNCHANGED outcome
         ELSE /\ rpc' = "thrown"
              /\ outcome' = out
    /\ UNCHANGED <<script, final, retries, delay, waits, waited>>

\* the setTimeout elapses and the wrapper calls itself
Backoff ==
    /\ rpc = "wait"
    /\ waits' = waits + 1
    /\ waited' = waited + delay
    /\ retries' = retries - 1
    /\ delay' = delay * 2
    /\ rpc' = "call"
    /\ UNCHANGED <<script, final, invocations, outcome>>

RetryNext ==
    \/ AttemptOk(FnOutcome(invocations + 1)) /\ UNCHANGED <<batchVars, ledgerVars, clientVars>>
    \/ AttemptFail(FnOutcome(invocations + 1)) /\ UNCHANGED <<batchVars, ledgerVars, clientVars>>
    \/ Backoff /\ UNCHANGED <<batchVars, ledgerVars, clientVars>>

SpecRetry == RetryInit /\ [][RetryNext]_vars

(***************************************************************************)
(* Properties of callWithRetry (specification SpecRetry)                   *)
(***************************************************************************)
RetryDone == rpc \in {"returned", "thrown"}

AllRetryable(s) == \A k \in 1..Len(s) : IsRetryable(s[k])

\* the operation fails with retryable errors only and never succeeds
AlwaysFailsRetryable == AllRetryable(script) /\ final = Failed(E503)

\* position of the first non-retryable error of the script is j
FirstFatalAt(j) ==
    /\ j \in 1..Len(script)
    /\ ~IsRetryable(script[j])
    /\ \A k \in 1..(j - 1) : IsRetryable(script[k])

\* C7: an operation that fails with a retryable error k times (k <= 4) and
\* then succeeds is invoked exactly k+1 times and the wrapper returns that
\* success result; for k = 4 the operation is invoked exactly 5 times.
C7_RetryThenSuccess ==
    (RetryDone /\ Len(script) <= 4 /\ AllRetryable(script) /\ final.kind = "ok")
        => /\ rpc = "returned"
           /\ invocations = Len(script) + 1
           /\ outcome = final

C7_Witness ==
    /\ rpc = "returned"
    /\ Len(script) = 4
    /\ AllRetryable(script)
    /\ invocations = 5
    /\ outcome = Ok("resB")

\* C8: when the operation fails with a non-retryable error it is not invoked
\* again, no delay is waited after that failure and the very same error is
\* thrown to the caller, whatever retry budget remains (first position: the
\* operation is invoked exactly once and nothing is waited at all).
C8_FatalErrorPropagates ==
    \A j \in 1..(DefaultRetries + 1) :
        FirstFatalAt(j) =>
            /\ invocations <= j
            /\ invocations = j => (rpc = "thrown" /\ waits = j - 1)
            /\ RetryDone => (invocations = j /\ outcome = Failed(script[j]))

C8_Witness ==
    /\ FirstFatalAt(1)
    /\ script[1] = E400
    /\ rpc = "thrown"
    /\ invocations = 1
    /\ waits = 0
    /\ retries = DefaultRetries
    /\ outcome = Failed(E400)

\* C9 as stated: with the default budget an operation that always fails with
\* a retryable error is invoked exactly 5 times before the last error is
\* propagated.
C9_Original ==
    (RetryDone /\ AlwaysFailsRetryable) => (rpc = "thrown" /\ invocations = 5)

\* C9 amended: the default budget is 5 RETRIES, so the wrapper makes at most
\* 6 attempts in total; an operation that always fails with a retryable
\* error is invoked exactly 6 times (1 call + 5 retries, 5 delays), after
\* which the wrapper terminates by propagating the last error.
C9_SixAttempts ==
    /\ invocations <= DefaultRetries + 1
    /\ (RetryDone /\ AlwaysFailsRetryable) =>
           /\ rpc = "thrown"
           /\ invocations = DefaultRetries + 1
           /\ waits = DefaultRetries
           /\ retries = 0
           /\ outcome = FnOutcome(DefaultRetries + 1)

C9_Witness ==
    /\ rpc = "thrown"
    /\ AlwaysFailsRetryable
    /\ invocations = 6
    /\ waits = 5

(***************************************************************************)
(* generateStoryboardScenes(scenario, characters, totalSceneCount,         *)
(*                          onProgress)                                    *)
(***************************************************************************)
BATCH_SIZE == 20

Min(a, b) == IF a < b THEN a ELSE b

\* Math.round(a / b * 100) for a >= 0, b > 0
RoundPercent(a, b) == (200 * a + b) \div (2 * b)

StartId(k) == k + 1

EndIdNoClamp(k, total) == k + BATCH_SIZE

EndId(k, total) == Min(k + BATCH_SIZE, total)

\* the text of a response: an optional opening code fence, a body and an
\* optional closing fence; the body is a JSON object with a scenes array of
\* `count` units (one of them null when nullUnit), a JSON object without
\* scenes, a bare JSON array, text that is not JSON, or no text at all
MkText(open, body, close, count, nullUnit) ==
    [open |-> open, body |-> body, close |-> close, count |-> count,
     nullUnit |-> nullUnit]

\* cleanJson(text)
CleanJson(text) ==
    IF text.body = "undefined"
    THEN MkText("none", "array", FALSE, 0, FALSE)
    ELSE IF text.open = "json" \/ text.open = "plain"
    THEN [text EXCEPT !.open = "none", !.close = FALSE]
    ELSE text

\* JSON.parse(cleanedText) throws
ParseThrows(cleaned) ==
    \/ cleaned.open # "none"
    \/ cleaned.close
    \/ cleaned.body \in {"garbage", "undefined"}

\* rawData.scenes || []  (its length)
SceneListLen(cleaned) ==
    IF cleaned.body = "object" THEN cleaned.count ELSE 0

\* sceneList.map(...) throws on a unit that is not an object
MapThrows(cleaned) ==
    cleaned.body = "object" /\ cleaned.count > 0 /\ cleaned.nullUnit

\* the try block of a batch fails
BatchFails(text) ==
    LET cleaned == CleanJson(text)
    IN  ParseThrows(cleaned) \/ MapThrows(cleaned)

BatchScenesFromOne(startId, n) ==
    [k \in 1..n |-> [id |-> k, batchStart |-> startId]]

\* batchScenes: unit number index (0-based) gets id startId + index
BatchScenes(startId, n) ==
    [k \in 1..n |-> [id |-> startId + (k - 1), batchStart |-> startId]]

\* the counts of units a response to a batch of size b may carry
Counts(b) == {0, b - 1, b, b + 1}

Responses(b) ==
    {MkText(o, "object", o # "none", c, FALSE) : o \in {"none", "json"}, c \in Counts(b)}
        \cup {MkText("none", "object", FALSE, b, TRUE),
              MkText("none", "object", TRUE, b, FALSE),
              MkText("plain", "garbage", TRUE, 0, FALSE),
              MkText("none", "garbage", FALSE, 0, FALSE),
              MkText("none", "undefined", FALSE, 0, FALSE),
              MkText("none", "array", FALSE, 0, FALSE),
              MkText("none", "noscenes", FALSE, 0, FALSE)}

ServiceErrors == {E503, E400}

\* what one call of ai.models.generateContent can do for a batch of size b
ServiceOutcomes(b) == {Ok(r) : r \in Responses(b)} \cup {Failed(e) : e \in ServiceErrors}

\* what the caller shows before the job: nothing, or an earlier storyboard
PreviousScenes == BatchScenes(1, 2)

BatchInit ==
    /\ script = <<>>
    /\ final = Nothing
    /\ rpc = "idle"
    /\ retries = DefaultRetries
    /\ delay = DefaultDelay
    /\ invocations = 0
    /\ waits = 0
    /\ waited = 0
    /\ outcome = Nothing
    /\ totalSceneCount \in 1..MaxT
    /\ i = 0
    /\ bpc = "loop"
    /\ allScenes = <<>>
    /\ prompts = <<>>
    /\ progress = <<>>
    /\ jobResult = Nothing
    /\ scenes \in {<<>>, PreviousScenes}
    /\ LedgerIdle
    /\ ClientIdle

\* one iteration of the for loop up to the call of callWithRetry
BatchStart ==
    /\ bpc = "loop"
    /\ i < totalSceneCount
    /\ LET startId == StartId(i)
           endId == EndId(i, totalSceneCount)
           contextId == IF Len(allScenes) > 0 THEN allScenes[Len(allScenes)].id ELSE 0
       IN  prompts' = Append(prompts,
               [startId |-> startId,
                endId |-> endId,
                currentBatchSize |-> endId - startId + 1,
                startPercent |-> RoundPercent(startId - 1, totalSceneCount),
                endPercent |-> RoundPercent(endId, totalSceneCount),
                contextId |-> contextId])
    /\ bpc' = "calling"
    /\ rpc' = "call"
    /\ retries' = DefaultRetries
    /\ delay' = DefaultDelay
    /\ invocations' = 0
    /\ waits' = 0
    /\ waited' = 0
    /\ outcome' = Nothing
    /\ UNCHANGED <<script, final, totalSceneCount, i, allScenes, progress, jobResult, scenes>>

CurrentBatchSize == prompts[Len(prompts)].currentBatchSize

\* ai.models.generateContent inside callWithRetry
BatchAttempt ==
    /\ bpc = "calling"
    /\ \E out \in ServiceOutcomes(CurrentBatchSize) :
           AttemptOk(out) \/ AttemptFail(out)
    /\ UNCHANGED batchVars

BatchBackoff ==
    /\ bpc = "calling"
    /\ Backoff
    /\ UNCHANGED batchVars

\* callWithRetry threw: the error leaves generateStoryboardScenes
BatchCallThrows ==
    /\ bpc = "calling"
    /\ rpc = "thrown"
    /\ bpc' = "failed"
    /\ jobResult' = [kind |-> "err", val |-> <<>>, err |-> outcome.err]
    /\ UNCHANGED <<retryVars, totalSceneCount, i, allScenes, prompts, progress, scenes>>

ParseError == MkError(Absent, Absent, Absent, Absent, <<"Bad", "JSON">>)

\* the try/catch after the call: parse, map, append, report progress
BatchParse ==
    /\ bpc = "calling"
    /\ rpc = "returned"
    /\ LET text == outcome.val
           startId == prompts[Len(prompts)].startId
       IN  IF BatchFails(text)
           THEN /\ bpc' = "failed"
                /\ jobResult' = [kind |-> "err", val |-> <<>>, err |-> ParseError]
                /\ UNCHANGED <<i, allScenes, progress>>
           ELSE /\ allScenes' = allScenes \o BatchScenes(startId, SceneListLen(CleanJson(text)))
                /\ progress' = Append(progress, <<Len(allScenes'), totalSceneCount>>)
                /\ i' = i + BATCH_SIZE
                /\ bpc' = "loop"
                /\ UNCHANGED jobResult
    /\ UNCHANGED <<retryVars, totalSceneCount, prompts, scenes>>

\* the loop condition fails: return allScenes
JobReturn ==
    /\ bpc = "loop"
    /\ i >= totalSceneCount
    /\ bpc' = "done"
    /\ jobResult' = [kind |-> "ok", val |-> allScenes, err |-> NoError]
    /\ UNCHANGED <<retryVars, totalSceneCount, i, allScenes, prompts, progress, scenes>>

\* handleCreateStoryboard after the await: an empty result is thrown into the
\* catch block, anything else replaces the caller's scene list
CreateStoryboardThen ==
    /\ bpc = "done"
    /\ IF Len(jobResult.val) = 0
         THEN /\ bpc' = "alerted"
              /\ UNCHANGED scenes
         ELSE /\ bpc' = "shown"
              /\ scenes' = jobResult.val
    /\ UNCHANGED <<retryVars, totalSceneCount, i, allScenes, prompts, progress, jobResult>>

CreateStoryboardCatchKeepsPartial ==
    /\ bpc = "failed"
    /\ bpc' = "alerted"
    /\ scenes' = allScenes
    /\ UNCHANGED <<retryVars, totalSceneCount, i, allScenes, prompts, progress, jobResult>>

\* handleCreateStoryboard's catch block: alert, the scene list is not touched
CreateStoryboardCatch ==
    /\ bpc = "failed"
    /\ bpc' = "alerted"
    /\ UNCHANGED <<retryVars, totalSceneCount, i, allScenes, prompts, progress, jobResult, scenes>>

BatchNext ==
    \/ BatchStart /\ UNCHANGED <<ledgerVars, clientVars>>
    \/ BatchAttempt /\ UNCHANGED <<ledgerVars, clientVars>>
    \/ BatchBackoff /\ UNCHANGED <<ledgerVars, clientVars>>
    \/ BatchCallThrows /\ UNCHANGED <<ledgerVars, clientVars>>
    \/ BatchParse /\ UNCHANGED <<ledgerVars, clientVars>>
    \/ JobReturn /\ UNCHANGED <<ledgerVars, clientVars>>
    \/ CreateStoryboardThen /\ UNCHANGED <<ledgerVars, clientVars>>
    \/ CreateStoryboardCatch /\ UNCHANGED <<ledgerVars, clientVars>>

SpecBatch == BatchInit /\ [][BatchNext]_vars

(***************************************************************************)
(* Properties of generateStoryboardScenes (specification SpecBatch)        *)
(***************************************************************************)
Ranges == [k \in 1..Len(prompts) |-> <<prompts[k].startId, prompts[k].endId>>]

\* C1: whenever generateStoryboardScenes returns successfully, the returned
\* merged list has exactly totalSceneCount entries whose ids are
\* 1..totalSceneCount in ascending order, without gaps or duplicates.
C1_MergedIsOneToT ==
    bpc = "done" =>
        /\ Len(jobResult.val) = totalSceneCount
        /\ \A k \in 1..Len(jobResult.val) : jobResult.val[k].id = k

\* C10: the ranges [startId, endId] of the batch loop are ascending,
\* non-overlapping and gap-free, each has size <= 20 and only the last may be
\* shorter; when the loop has run to its end they cover exactly
\* [1, totalSceneCount]; for 45 scenes they are [1,20], [21,40], [41,45].
C10_RangesPartition ==
    /\ \A k \in 1..Len(prompts) :
           /\ prompts[k].startId <= prompts[k].endId
           /\ prompts[k].endId <= totalSceneCount
           /\ prompts[k].endId - prompts[k].startId + 1 <= BATCH_SIZE
           /\ prompts[k].currentBatchSize = prompts[k].endId - prompts[k].startId + 1
           /\ k = 1 => prompts[k].startId = 1
           /\ k > 1 => prompts[k].startId = prompts[k - 1].endId + 1
           /\ k < Len(prompts) => prompts[k].currentBatchSize = BATCH_SIZE
    /\ bpc = "done" =>
           /\ Len(prompts) >= 1
           /\ prompts[Len(prompts)].endId = totalSceneCount
    /\ (bpc = "done" /\ totalSceneCount = 45) =>
           Ranges = <<(<<1, 20>>), (<<21, 40>>), (<<41, 45>>)>>

C10_Witness ==
    /\ bpc = "done"
    /\ totalSceneCount = 45
    /\ Len(prompts) = 3
    /\ prompts[3].startId = 41
    /\ prompts[3].endId = 45

\* C11: when a batch of the job fails for good (retry budget exhausted,
\* non-retryable error, unparseable response) generateStoryboardScenes throws
\* one error and delivers no scenes, whatever earlier batches accumulated, and
\* the caller's scene list stays as it was before the job.
C11_FailedJobDeliversNothing ==
    [][jobResult'.kind = "err" =>
           /\ jobResult'.val = <<>>
           /\ scenes' = scenes
           /\ bpc' \in {"failed", "alerted"}]_vars

C11_Witness ==
    /\ bpc = "alerted"
    /\ jobResult.kind = "err"
    /\ Len(prompts) = 2
    /\ Len(allScenes) = BATCH_SIZE
    /\ invocations = 6
    /\ scenes = PreviousScenes

(***************************************************************************)
(* generateImagesForAllCharacters(chars)                                   *)
(***************************************************************************)
CHUNK_SIZE == 3

\* a character: referenceImage is absent ("none"), the one it came with
\* ("old") or the one generated by this job ("new")
MkChar(image) == [referenceImage |-> image]

\* chars.slice(k, k + CHUNK_SIZE) as the set of its (1-based) positions
Chunk(k, chars) == {u \in 1..Len(chars) : k < u /\ u <= k + CHUNK_SIZE}

\* the argument chars: n characters, those of withImage have a reference image
CharsOf(n, withImage) ==
    [u \in 1..n |-> MkChar(IF u \in withImage THEN "old" ELSE "none")]

PortraitInit ==
    /\ script = <<>>
    /\ final = Nothing
    /\ rpc = "idle"
    /\ retries = DefaultRetries
    /\ delay = DefaultDelay
    /\ invocations = 0
    /\ waits = 0
    /\ waited = 0
    /\ outcome = Nothing
    /\ BatchIdle
    /\ LedgerIdle
    /\ ImageIdle
    /\ \E n \in 1..MaxUnits, withImage \in {{}, {2}} :
          /\ updatedChars = CharsOf(n, withImage)
          /\ characters = CharsOf(n, withImage)
          /\ failing \in SUBSET {u \in 1..n : u \notin withImage}
    /\ ci = 0
    /\ running = {}
    /\ ppc = "loop"

\* one iteration of the for loop up to the await of Promise.all: every
\* callback of the chunk has run to its first await; the callbacks of
\* characters that have a reference image are already finished
PortraitChunkStart ==
    /\ ppc = "loop"
    /\ ci < Len(updatedChars)
    /\ running' = {u \in Chunk(ci, updatedChars) : updatedChars[u].referenceImage = "none"}
    /\ ppc' = "chunk"
    /\ UNCHANGED <<updatedChars, failing, ci, characters>>

PortraitUnitSettleNoCatch(u) ==
    /\ ppc = "chunk"
    /\ u \in running
    /\ running' = running \ {u}
    /\ IF u \in failing
         THEN /\ ppc' = "thrown"
              /\ UNCHANGED <<updatedChars, characters>>
         ELSE /\ updatedChars' = [updatedChars EXCEPT ![u] = MkChar("new")]
              /\ characters' = updatedChars'
              /\ UNCHANGED ppc
    /\ UNCHANGED <<failing, ci>>

\* generateCharacterReference(char) settles: the image is stored and
\* published, or the rejection is caught and logged
PortraitUnitSettle(u) ==
    /\ ppc = "chunk"
    /\ u \in running
    /\ running' = running \ {u}
    /\ IF u \in failing
         THEN UNCHANGED <<updatedChars, characters>>
         ELSE /\ updatedChars' = [updatedChars EXCEPT ![u] = MkChar("new")]
              /\ characters' = updatedChars'
    /\ UNCHANGED <<failing, ci, ppc>>

PortraitChunkJoinEarly ==
    /\ ppc = "chunk"
    /\ ci' = ci + CHUNK_SIZE
    /\ ppc' = "loop"
    /\ UNCHANGED <<updatedChars, failing, running, characters>>

\* Promise.all resolves: i += CHUNK_SIZE
PortraitChunkJoin ==
    /\ ppc = "chunk"
    /\ running = {}
    /\ ci' = ci + CHUNK_SIZE
    /\ ppc' = "loop"
    /\ UNCHANGED <<updatedChars, failing, running, characters>>

\* the loop condition fails: return updatedChars
PortraitReturn ==
    /\ ppc = "loop"
    /\ ci >= Len(updatedChars)
    /\ ppc' = "returned"
    /\ UNCHANGED <<updatedChars, failing, ci, running, characters>>

PortraitNext ==
    \/ PortraitChunkStart /\ UNCHANGED <<retryVars, batchVars, ledgerVars, imageVars>>
    \/ \E u \in 1..MaxUnits : PortraitUnitSettle(u) /\ UNCHANGED <<retryVars, batchVars, ledgerVars, imageVars>>
    \/ PortraitChunkJoin /\ UNCHANGED <<retryVars, batchVars, ledgerVars, imageVars>>
    \/ PortraitReturn /\ UNCHANGED <<retryVars, batchVars, ledgerVars, imageVars>>

SpecPortrait == PortraitInit /\ [][PortraitNext]_vars

(***************************************************************************)
(* Properties of generateImagesForAllCharacters (specification             *)
(* SpecPortrait)                                                           *)
(***************************************************************************)
Resolved(chars) == {u \in 1..Len(chars) : chars[u].referenceImage # "none"}

\* C12: whichever units fail, the portrait job does not throw; when it
\* returns, every unit whose generation succeeded has its image and every
\* failed unit has none; with 7 units and only unit 4 failing the result has
\* 6 resolved units and 1 unresolved unit.
C12_PortraitFailuresIsolated ==
    /\ ppc # "thrown"
    /\ ppc = "returned" =>
           /\ \A u \in 1..Len(updatedChars) :
                  updatedChars[u].referenceImage = "none" <=> u \in failing
           /\ characters = updatedChars
           /\ (Len(updatedChars) = 7 /\ failing = {4}) =>
                  /\ Cardinality(Resolved(updatedChars)) = 6
                  /\ Len(updatedChars) - Cardinality(Resolved(updatedChars)) = 1

C12_Witness ==
    /\ ppc = "returned"
    /\ Len(updatedChars) = 7
    /\ failing = {4}
    /\ \A u \in 1..7 : u # 4 => updatedChars[u].referenceImage = "new"
    /\ updatedChars[4].referenceImage = "none"

(***************************************************************************)
(* Token ledger: pricing tables and pure helpers                           *)
(***************************************************************************)
COST_PER_IMAGE == 5

PRICING_pro_standard == 5000
PRICING_pro_premium == 30000
MAX_TOKENS_pro_standard == 10000
MAX_TOKENS_pro_premium == 60000
FREE_MAX_BALANCE == 100
REFUND_UNIT == 100000
REFUND_TOKENS == 1000

\* PRICING[plan] || 0 of the webhook
PricingOf(plan) ==
    CASE plan = "pro_standard" -> PRICING_pro_standard
      [] plan = "pro_premium"  -> PRICING_pro_premium
      [] plan = "token_topup"  -> 1000
      [] OTHER                 -> 0

\* parseInt(metadata.tokensAmount || '1000')
ParseTokensAmount(text) ==
    CASE text = ""     -> 1000
      [] text = "1000" -> 1000
      [] text = "3000" -> 3000
      [] text = "9000" -> 9000
      [] OTHER         -> 0

\* the nested conditional that picks maxBalance, without the new-plan arms
MaxBalanceCurrentTierOnly(newPlanTier, userTier) ==
    IF userTier = "pro_premium" THEN MAX_TOKENS_pro_premium
    ELSE IF userTier = "pro_standard" THEN MAX_TOKENS_pro_standard
    ELSE FREE_MAX_BALANCE

\* the nested conditional that picks maxBalance
MaxBalance(newPlanTier, userTier) ==
    IF newPlanTier = "pro_premium" THEN MAX_TOKENS_pro_premium
    ELSE IF newPlanTier = "pro_standard" THEN MAX_TOKENS_pro_standard
    ELSE IF userTier = "pro_premium" THEN MAX_TOKENS_pro_premium
    ELSE IF userTier = "pro_standard" THEN MAX_TOKENS_pro_standard
    ELSE FREE_MAX_BALANCE

\* the balance ceiling of a plan tier
Ceiling(tier) == MaxBalance("", tier)

\* Math.floor(refundAmount / 100000) * 1000
TokensToRefundRounded(refundAmount) ==
    ((refundAmount + REFUND_UNIT \div 2) \div REFUND_UNIT) * REFUND_TOKENS

TokensToRefund(refundAmount) == (refundAmount \div REFUND_UNIT) * REFUND_TOKENS

\* consumeTokens never rejects
InsufficientNever(newBalance) == FALSE

\* the check `newBalance < 0` of consumeTokens
Insufficient(newBalance) == newBalance < 0

\* the stored procedure deduct_tokens(user_id, amount): one conditional
\* decrement, answering with the balance before and after it
DeductTokensRpc(bal, amount) ==
    IF bal >= amount
    THEN [ok |-> TRUE, before |-> bal, after |-> bal - amount]
    ELSE [ok |-> FALSE, before |-> bal, after |-> bal]

(***************************************************************************)
(* Payment provider events                                                 *)
(***************************************************************************)
MkEvent(id, type, userId, plan, tokensAmount, amountRefunded, hasCharges, intent) ==
    [id |-> id, type |-> type, userId |-> userId, plan |-> plan,
     tokensAmount |-> tokensAmount, amountRefunded |-> amountRefunded,
     hasCharges |-> hasCharges, intent |-> intent]

EvTopup   == MkEvent("evt_topup", "payment_intent.succeeded", TRUE, "", "1000", 0, TRUE, "pi_topup")
EvStd     == MkEvent("evt_std", "payment_intent.succeeded", TRUE, "pro_standard", "", 0, TRUE, "pi_std")
EvPrem    == MkEvent("evt_prem", "payment_intent.succeeded", TRUE, "pro_premium", "", 0, TRUE, "pi_prem")
EvLegacy  == MkEvent("evt_nocharges", "payment_intent.succeeded", TRUE, "", "", 0, FALSE, "pi_topup")
EvNoUser  == MkEvent("evt_nouser", "payment_intent.succeeded", FALSE, "", "1000", 0, TRUE, "pi_other")
EvFailed  == MkEvent("evt_failed", "payment_intent.payment_failed", TRUE, "", "1000", 0, TRUE, "pi_failed")
EvRefund  == MkEvent("evt_refund", "charge.refunded", TRUE, "", "", 250000, TRUE, "")
EvRefundSmall == MkEvent("evt_refund_small", "charge.refunded", TRUE, "", "", 99999, TRUE, "")
EvOther   == MkEvent("evt_other", "customer.created", TRUE, "", "", 0, TRUE, "")

\* a request whose signature does not verify: its body is never parsed
ForgedEvent == MkEvent("evt_forged", "payment_intent.succeeded", TRUE, "", "3000", 0, TRUE, "pi_topup")

Events == {EvTopup, EvStd, EvPrem, EvLegacy, EvNoUser, EvFailed, EvRefund, EvRefundSmall,
           EvOther}

\* rows of token_transactions
MkTx(type, delta, before, after, intent, status) ==
    [type |-> type, delta |-> delta, before |-> before, after |-> after,
     intent |-> intent, status |-> status]

\* the row create-payment-intent inserts for a new payment intent
PendingTx(type, intent) == MkTx(type, 0, 0, 0, intent, "pending")

\* rows of stripe_events
MkEventRow(id) == [id |-> id, processed |-> FALSE, errorMessage |-> "", retryCount |-> 0]

\* .update(fields).eq('stripe_payment_intent_id', intent)
UpdateTxWhereIntent(rows, intent, delta, before, after, status) ==
    [k \in 1..Len(rows) |->
        IF rows[k].intent = intent /\ intent # ""
        THEN [rows[k] EXCEPT !.delta = delta, !.before = before, !.after = after,
                             !.status = status]
        ELSE rows[k]]

AnnotateEveryTx(rows, intent, status) ==
    [k \in 1..Len(rows) |-> [rows[k] EXCEPT !.status = status]]

\* .update({description}).eq('stripe_payment_intent_id', intent)
AnnotateTxWhereIntent(rows, intent, status) ==
    [k \in 1..Len(rows) |->
        IF rows[k].intent = intent /\ intent # ""
        THEN [rows[k] EXCEPT !.status = status]
        ELSE rows[k]]

\* insert into stripe_events
InsertEventRow(rows, id) ==
    IF uniqueEventIds /\ \E k \in 1..Len(rows) : rows[k].id = id
    THEN rows
    ELSE Append(rows, MkEventRow(id))

\* .update({processed: true}).eq('stripe_event_id', id)
MarkProcessed(rows, id) ==
    [k \in 1..Len(rows) |->
        IF rows[k].id = id THEN [rows[k] EXCEPT !.processed = TRUE] ELSE rows[k]]

\* .update({error_message, retry_count: 1}).eq('stripe_event_id', id)
MarkFailed(rows, id, message) ==
    [k \in 1..Len(rows) |->
        IF rows[k].id = id
        THEN [rows[k] EXCEPT !.errorMessage = message, !.retryCount = 1]
        ELSE rows[k]]

\* whether the next store call returns an error
FaultChoices == IF faults < MaxFaults THEN {FALSE, TRUE} ELSE {FALSE}

CountFault(f) == faults' = faults + (IF f THEN 1 ELSE 0)

\* the record of a completed operation
MkHist(l, ok, status, s1) ==
    [op |-> l.op, ev |-> l.ev.id, type |-> l.ev.type,
     amount |-> IF l.op = "webhook" THEN l.tokensToAdd ELSE l.amount,
     ok |-> ok, before |-> l.read, after |-> l.final, ceiling |-> l.maxBalance,
     tierAfter |-> l.tierAfter, status |-> status, wrote |-> l.wrote,
     changed |-> l.changed, err |-> l.err, s0 |-> l.s0, s1 |-> s1]

\* task p goes to its next store call with locals l
Goto(p, label, l) ==
    /\ lpc' = [lpc EXCEPT ![p] = label]
    /\ loc' = [loc EXCEPT ![p] = l]
    /\ UNCHANGED hist

\* the operation of task p ends
Finish(p, l, ok, status, s1) ==
    /\ lpc' = [lpc EXCEPT ![p] = "idle"]
    /\ loc' = [loc EXCEPT ![p] = IdleLoc]
    /\ hist' = Append(hist, MkHist(l, ok, status, s1))

(***************************************************************************)
(* consumeTokens(userId, amount)                                           *)
(***************************************************************************)
DebitAmounts == {COST_PER_IMAGE, 10}

StartConsume(p, amount, cap) ==
    /\ lpc[p] = "idle"
    /\ opsStarted < cap
    /\ opsStarted' = opsStarted + 1
    /\ Goto(p, "ct_read", [IdleLoc EXCEPT !.op = "consume", !.amount = amount, !.s0 = balance])
    /\ UNCHANGED <<balance, planTier, balance0, uniqueEventIds, stripeEvents, transactions, faults>>

\* select token_balance, then the check of newBalance
CtRead(p) ==
    /\ lpc[p] = "ct_read"
    /\ \E f \in FaultChoices :
        /\ CountFault(f)
        /\ LET newBalance == balance - loc[p].amount
               l == [loc[p] EXCEPT !.read = balance]
           IN  IF f
               THEN Finish(p, [loc[p] EXCEPT !.err = "fetch error"], FALSE, 0, balance)
               ELSE IF Insufficient(newBalance)
               THEN Finish(p, [l EXCEPT !.err = "Insufficient tokens"], FALSE, 0, balance)
               ELSE Goto(p, "ct_update", [l EXCEPT !.final = newBalance])
    /\ UNCHANGED <<balance, planTier, balance0, uniqueEventIds, stripeEvents, transactions, opsStarted>>

\* update users set token_balance = newBalance
CtUpdate(p) ==
    /\ lpc[p] = "ct_update"
    /\ \E f \in FaultChoices :
        /\ CountFault(f)
        /\ IF f
           THEN /\ Finish(p, [loc[p] EXCEPT !.err = "update error"], FALSE, 0, balance)
                /\ UNCHANGED balance
           ELSE /\ balance' = loc[p].final
                /\ Goto(p, "ct_log", [loc[p] EXCEPT !.wrote = TRUE,
                                                    !.changed = (loc[p].final # balance),
                                                    !.tierAfter = planTier])
    /\ UNCHANGED <<planTier, balance0, uniqueEventIds, stripeEvents, transactions, opsStarted>>

\* logTokenTransaction(userId, -amount, 'consumption', ...) and the return
CtLog(p) ==
    /\ lpc[p] = "ct_log"
    /\ \E f \in FaultChoices :
        /\ CountFault(f)
        /\ IF f
           THEN /\ Finish(p, [loc[p] EXCEPT !.err = "log error"], FALSE, 0, balance)
                /\ UNCHANGED transactions
           ELSE /\ transactions' = Append(transactions,
                       MkTx("consumption", 0 - loc[p].amount, loc[p].read, loc[p].final, "", ""))
                /\ Finish(p, loc[p], TRUE, 0, balance)
    /\ UNCHANGED <<balance, planTier, balance0, uniqueEventIds, stripeEvents, opsStarted>>

(***************************************************************************)
(* deductTokensForImage(userId, costPerImage, sceneId)                     *)
(***************************************************************************)
StartDeduct(p, cap) ==
    /\ lpc[p] = "idle"
    /\ opsStarted < cap
    /\ opsStarted' = opsStarted + 1
    /\ Goto(p, "dt_rpc", [IdleLoc EXCEPT !.op = "deduct", !.amount = COST_PER_IMAGE,
                                         !.s0 = balance])
    /\ UNCHANGED <<balance, planTier, balance0, uniqueEventIds, stripeEvents, transactions, faults>>

\* supabase.rpc('deduct_tokens', ...) and the two early returns
DtRpc(p) ==
    /\ lpc[p] = "dt_rpc"
    /\ \E f \in FaultChoices :
        /\ CountFault(f)
        /\ LET r == DeductTokensRpc(balance, loc[p].amount)
           IN  IF f
               THEN /\ Finish(p, [loc[p] EXCEPT !.err = "rpc error"], FALSE, 0, balance)
                    /\ UNCHANGED balance
               ELSE IF ~r.ok
               THEN /\ Finish(p, [loc[p] EXCEPT !.err = "insufficient"], FALSE, 0, balance)
                    /\ UNCHANGED balance
               ELSE /\ balance' = r.after
                    /\ Goto(p, "dt_log", [loc[p] EXCEPT !.read = r.before, !.final = r.after,
                                                        !.wrote = TRUE, !.changed = TRUE,
                                                        !.tierAfter = planTier])
    /\ UNCHANGED <<planTier, balance0, uniqueEventIds, stripeEvents, transactions, opsStarted>>

\* logTokenTransaction(...) of imageGenerationService and the success return
DtLog(p) ==
    /\ lpc[p] = "dt_log"
    /\ \E f \in FaultChoices :
        /\ CountFault(f)
        /\ IF f
           THEN UNCHANGED transactions
           ELSE transactions' = Append(transactions,
                    MkTx("image_generation", 0 - loc[p].amount, loc[p].read, loc[p].final, "", ""))
    /\ Finish(p, loc[p], TRUE, 0, balance)
    /\ UNCHANGED <<balance, planTier, balance0, uniqueEventIds, stripeEvents, opsStarted>>

(***************************************************************************)
(* The payment webhook: handler, handlePaymentSucceeded,                   *)
(* handlePaymentFailed, handleRefund                                       *)
(***************************************************************************)
StartWebhookTrusting(p, ev, sigOk, cap) ==
    /\ lpc[p] = "idle"
    /\ opsStarted < cap
    /\ opsStarted' = opsStarted + 1
    /\ Goto(p, "wh_insert", [IdleLoc EXCEPT !.op = "webhook", !.ev = ev, !.s0 = balance])
    /\ UNCHANGED <<balance, planTier, balance0, uniqueEventIds, stripeEvents, transactions, faults>>

\* the handler up to its first store call: constructEvent verifies the
\* signature; when it throws the handler answers 400
StartWebhook(p, ev, sigOk, cap) ==
    /\ lpc[p] = "idle"
    /\ opsStarted < cap
    /\ opsStarted' = opsStarted + 1
    /\ LET l == [IdleLoc EXCEPT !.op = "webhook", !.ev = ev, !.s0 = balance]
       IN  IF sigOk
           THEN Goto(p, "wh_insert", l)
           ELSE Finish(p, [l EXCEPT !.err = "Invalid signature"], FALSE, 400, balance)
    /\ UNCHANGED <<balance, planTier, balance0, uniqueEventIds, stripeEvents, transactions, faults>>

\* where the switch on stripeEvent.type first suspends
Dispatch(ev) ==
    CASE ev.type = "payment_intent.succeeded" ->
             IF ev.userId THEN "ps_read" ELSE "wh_catch"
      [] ev.type = "payment_intent.payment_failed" ->
             IF ev.userId THEN "pf_update" ELSE "wh_mark"
      [] ev.type = "charge.refunded" ->
             IF ev.amountRefunded # 0 /\ ev.userId THEN "rf_read" ELSE "wh_mark"
      [] OTHER -> "wh_mark"

\* insert into stripe_events (its result is not looked at), then the switch
WhInsert(p) ==
    /\ lpc[p] = "wh_insert"
    /\ \E f \in FaultChoices :
        /\ CountFault(f)
        /\ stripeEvents' = IF f THEN stripeEvents ELSE InsertEventRow(stripeEvents, loc[p].ev.id)
    /\ LET next == Dispatch(loc[p].ev)
       IN  Goto(p, next,
                IF next = "wh_catch"
                THEN [loc[p] EXCEPT !.err = "No userId in payment intent metadata"]
                ELSE loc[p])
    /\ UNCHANGED <<balance, planTier, balance0, uniqueEventIds, transactions, opsStarted>>

\* handlePaymentSucceeded: select token_balance, plan_tier; compute the credit
PsRead(p) ==
    /\ lpc[p] = "ps_read"
    /\ \E f \in FaultChoices :
        /\ CountFault(f)
        /\ LET ev == loc[p].ev
               upgrade == ev.plan # ""
               tokensToAdd == IF upgrade THEN PricingOf(ev.plan)
                              ELSE ParseTokensAmount(ev.tokensAmount)
               newPlanTier == IF upgrade THEN ev.plan ELSE ""
               balanceBefore == balance
               maxBalance == MaxBalance(newPlanTier, planTier)
               finalBalance == Min(balanceBefore + tokensToAdd, maxBalance)
           IN  IF f
               THEN Goto(p, "wh_catch", [loc[p] EXCEPT !.err = "User not found"])
               ELSE Goto(p, "ps_update",
                         [loc[p] EXCEPT !.read = balanceBefore, !.readTier = planTier,
                                        !.tokensToAdd = tokensToAdd,
                                        !.newTier = newPlanTier,
                                        !.maxBalance = maxBalance,
                                        !.final = finalBalance])
    /\ UNCHANGED <<balance, planTier, balance0, uniqueEventIds, stripeEvents, transactions, opsStarted>>

\* update users set token_balance (and plan_tier), then charges.data[0]
PsUpdate(p) ==
    /\ lpc[p] = "ps_update"
    /\ \E f \in FaultChoices :
        /\ CountFault(f)
        /\ IF f
           THEN /\ Goto(p, "wh_catch", [loc[p] EXCEPT !.err = "Failed to update user"])
                /\ UNCHANGED <<balance, planTier>>
           ELSE /\ balance' = loc[p].final
                /\ planTier' = IF loc[p].newTier # "" THEN loc[p].newTier ELSE planTier
                /\ LET l == [loc[p] EXCEPT !.wrote = TRUE,
                                           !.changed = (loc[p].final # balance),
                                           !.tierAfter = planTier']
                   IN  IF loc[p].ev.hasCharges
                       THEN Goto(p, "ps_tx", l)
                       ELSE Goto(p, "wh_catch", [l EXCEPT !.err = "TypeError"])
    /\ UNCHANGED <<balance0, uniqueEventIds, stripeEvents, transactions, opsStarted>>

\* update token_transactions of the payment intent
PsTx(p) ==
    /\ lpc[p] = "ps_tx"
    /\ \E f \in FaultChoices :
        /\ CountFault(f)
        /\ transactions' =
              IF f THEN transactions
              ELSE UpdateTxWhereIntent(transactions, loc[p].ev.intent, loc[p].tokensToAdd,
                                       loc[p].read, loc[p].final, "COMPLETED")
        /\ Goto(p, "wh_mark",
                IF f THEN [loc[p] EXCEPT !.err = "Failed to update transaction log"]
                ELSE loc[p])
    /\ UNCHANGED <<balance, planTier, balance0, uniqueEventIds, stripeEvents, opsStarted>>

\* handlePaymentFailed: annotate the transaction of the payment intent
PfUpdate(p) ==
    /\ lpc[p] = "pf_update"
    /\ \E f \in FaultChoices :
        /\ CountFault(f)
        /\ transactions' =
              IF f THEN transactions
              ELSE AnnotateTxWhereIntent(transactions, loc[p].ev.intent, "FAILED")
        /\ Goto(p, "wh_mark",
                IF f THEN [loc[p] EXCEPT !.err = "Failed to log failed payment"]
                ELSE loc[p])
    /\ UNCHANGED <<balance, planTier, balance0, uniqueEventIds, stripeEvents, opsStarted>>

\* handleRefund: select token_balance; compute the refund
RfRead(p) ==
    /\ lpc[p] = "rf_read"
    /\ \E f \in FaultChoices :
        /\ CountFault(f)
        /\ LET tokensToRefund == TokensToRefund(loc[p].ev.amountRefunded)
               newBalance == balance + tokensToRefund
           IN  IF f
               THEN Goto(p, "wh_mark", [loc[p] EXCEPT !.err = "User not found for refund"])
               ELSE Goto(p, "rf_update",
                         [loc[p] EXCEPT !.read = balance, !.readTier = planTier,
                                        !.tokensToAdd = tokensToRefund,
                                        !.final = newBalance])
    /\ UNCHANGED <<balance, planTier, balance0, uniqueEventIds, stripeEvents, transactions, opsStarted>>

\* handleRefund: update users set token_balance = newBalance
RfUpdate(p) ==
    /\ lpc[p] = "rf_update"
    /\ \E f \in FaultChoices :
        /\ CountFault(f)
        /\ IF f
           THEN /\ Goto(p, "wh_mark", [loc[p] EXCEPT !.err = "Failed to update balance for refund"])
                /\ UNCHANGED balance
           ELSE /\ balance' = loc[p].final
                /\ Goto(p, "rf_tx", [loc[p] EXCEPT !.wrote = TRUE,
                                                   !.changed = (loc[p].final # balance),
                                                   !.tierAfter = planTier])
    /\ UNCHANGED <<planTier, balance0, uniqueEventIds, stripeEvents, transactions, opsStarted>>

\* handleRefund: insert the refund row into token_transactions
RfTx(p) ==
    /\ lpc[p] = "rf_tx"
    /\ \E f \in FaultChoices :
        /\ CountFault(f)
        /\ transactions' =
              IF f THEN transactions
              ELSE Append(transactions,
                       MkTx("refund", loc[p].tokensToAdd, loc[p].read, loc[p].final, "", ""))
        /\ Goto(p, "wh_mark",
                IF f THEN [loc[p] EXCEPT !.err = "Failed to log refund transaction"]
                ELSE loc[p])
    /\ UNCHANGED <<balance, planTier, balance0, uniqueEventIds, stripeEvents, opsStarted>>

\* update stripe_events set processed = true; answer 200
WhMark(p) ==
    /\ lpc[p] = "wh_mark"
    /\ \E f \in FaultChoices :
        /\ CountFault(f)
        /\ stripeEvents' = IF f THEN stripeEvents ELSE MarkProcessed(stripeEvents, loc[p].ev.id)
    /\ Finish(p, loc[p], TRUE, 200, balance)
    /\ UNCHANGED <<balance, planTier, balance0, uniqueEventIds, transactions, opsStarted>>

\* the catch block: record the error on the event row; answer 500
WhCatch(p) ==
    /\ lpc[p] = "wh_catch"
    /\ \E f \in FaultChoices :
        /\ CountFault(f)
        /\ stripeEvents' = IF f THEN stripeEvents
                           ELSE MarkFailed(stripeEvents, loc[p].ev.id, loc[p].err)
    /\ Finish(p, loc[p], FALSE, 500, balance)
    /\ UNCHANGED <<balance, planTier, balance0, uniqueEventIds, transactions, opsStarted>>

(***************************************************************************)
(* The ledger under one task at a time and under two concurrent tasks      *)
(***************************************************************************)
InitialAccounts == {<<12, "pro_standard">>, <<100, "free">>, <<30100, "pro_premium">>}

InitialTransactions ==
    <<PendingTx("token_topup", "pi_topup"), PendingTx("plan_upgrade", "pi_std"),
      PendingTx("plan_upgrade", "pi_prem"), PendingTx("token_topup", "pi_failed")>>

LedgerInit ==
    /\ script = <<>>
    /\ final = Nothing
    /\ rpc = "idle"
    /\ retries = DefaultRetries
    /\ delay = DefaultDelay
    /\ invocations = 0
    /\ waits = 0
    /\ waited = 0
    /\ outcome = Nothing
    /\ BatchIdle
    /\ ClientIdle
    /\ \E a \in InitialAccounts :
          /\ balance = a[1]
          /\ balance0 = a[1]
          /\ planTier = a[2]
    /\ uniqueEventIds \in BOOLEAN
    /\ stripeEvents = <<>>
    /\ transactions = InitialTransactions
    /\ lpc = [p \in Tasks |-> "idle"]
    /\ loc = [p \in Tasks |-> IdleLoc]
    /\ hist = <<>>
    /\ opsStarted = 0
    /\ faults = 0

DebitStep(p, cap) ==
    \/ \E amount \in DebitAmounts : StartConsume(p, amount, cap)
    \/ CtRead(p)
    \/ CtUpdate(p)
    \/ CtLog(p)
    \/ StartDeduct(p, cap)
    \/ DtRpc(p)
    \/ DtLog(p)

WebhookStep(p, cap) ==
    \/ \E ev \in Events : StartWebhook(p, ev, TRUE, cap)
    \/ StartWebhook(p, ForgedEvent, FALSE, cap)
    \/ WhInsert(p)
    \/ PsRead(p)
    \/ PsUpdate(p)
    \/ PsTx(p)
    \/ PfUpdate(p)
    \/ RfRead(p)
    \/ RfUpdate(p)
    \/ RfTx(p)
    \/ WhMark(p)
    \/ WhCatch(p)

\* debits only, one after the other
DebitSeqNext == DebitStep(1, MaxOps) /\ UNCHANGED <<retryVars, batchVars, clientVars>>

\* webhook deliveries only, one after the other
WebhookSeqNext == WebhookStep(1, MaxDeliveries) /\ UNCHANGED <<retryVars, batchVars, clientVars>>

\* debits and webhook deliveries, one after the other
LedgerSeqNext ==
    \/ DebitStep(1, MaxOps) /\ UNCHANGED <<retryVars, batchVars, clientVars>>
    \/ WebhookStep(1, MaxOps) /\ UNCHANGED <<retryVars, batchVars, clientVars>>

\* debits and webhook deliveries, two operations may be in flight at a time
LedgerNext ==
    \/ \E p \in Tasks : DebitStep(p, MaxConcurrentOps) /\ UNCHANGED <<retryVars, batchVars, clientVars>>
    \/ \E p \in Tasks : WebhookStep(p, MaxConcurrentOps) /\ UNCHANGED <<retryVars, batchVars, clientVars>>

SpecDebitSeq == LedgerInit /\ [][DebitSeqNext]_vars

SpecWebhookSeq == LedgerInit /\ [][WebhookSeqNext]_vars

SpecLedgerSeq == LedgerInit /\ [][LedgerSeqNext]_vars

SpecLedger == LedgerInit /\ [][LedgerNext]_vars

(***************************************************************************)
(* ImageGenerator: generateSingle, startBatchGeneration,                   *)
(* stopBatchGeneration                                                     *)
(***************************************************************************)
\* user.tokens after the profile load: data.token_balance || 100
ProfileTokens(bal) == IF bal = 0 THEN 100 ELSE bal

ValidateTokensAlways(fetchError, bal, costPerImage) == TRUE

\* validateTokensForGeneration(...).valid
ValidateTokens(fetchError, bal, costPerImage) ==
    ~fetchError /\ ~(bal < costPerImage)

\* scenes.filter(s => !s.generatedImage), as scene ids
ScenesToGen ==
    LET NoImage(k) == ~generatedImage[k]
    IN  SelectSeq([k \in 1..Len(generatedImage) |-> k], NoImage)

\* the first position from rec.i on whose scene passes the generatingIds
\* check of generateSingle (that check reads the closure's generatingIds)
NextUnit(rec) ==
    LET n == Len(rec.scenesToGen)
        cand == {j \in rec.i..(n - 1) : rec.scenesToGen[j + 1] \notin rec.generatingIds}
    IN  IF cand = {} THEN n ELSE CHOOSE j \in cand : \A k \in cand : j <= k

\* the for loop from position rec.i up to its next await
LoopOutcome(rec, stop) ==
    IF rec.i >= Len(rec.scenesToGen) THEN "end"
    ELSE IF stop THEN "break"
    ELSE IF rec.tokens < COST_PER_IMAGE THEN "nofunds"
    ELSE IF NextUnit(rec) >= Len(rec.scenesToGen) THEN "end"
    ELSE "validate"

\* the record of a finished generateSingle call
MkUnit(r, scene, validated, generated, debitCalls, debitOk, stored) ==
    [run |-> r, scene |-> scene, validated |-> validated, generated |-> generated,
     debitCalls |-> debitCalls, debitOk |-> debitOk, stored |-> stored]

\* run r goes on with the loop: it issues the validation call of its next
\* unit, or leaves the loop and calls setIsBatchGenerating(false)
Continue(r, rec, stop, batching) ==
    LET out == LoopOutcome(rec, stop)
    IN  /\ run' = [run EXCEPT ![r] =
                      IF out = "validate"
                      THEN [rec EXCEPT !.pc = "validating", !.i = NextUnit(rec),
                                       !.validated = FALSE, !.generated = FALSE,
                                       !.debitCalls = 0]
                      ELSE [rec EXCEPT !.pc = "finished"]]
        /\ stopSignalRef' = (stop \/ out = "nofunds")
        /\ isBatchGenerating' = (out = "validate" /\ batching)

CurrentScene(r) == run[r].scenesToGen[run[r].i + 1]

ledgerButFaults == <<balance, planTier, balance0, uniqueEventIds, stripeEvents,
                     transactions, lpc, loc, hist, opsStarted>>

\* the debits one image session can start
ImageOpsCap == 2 * MaxScenes

ImageBalances == {0, 7, 12}

ImageInit ==
    /\ script = <<>>
    /\ final = Nothing
    /\ rpc = "idle"
    /\ retries = DefaultRetries
    /\ delay = DefaultDelay
    /\ invocations = 0
    /\ waits = 0
    /\ waited = 0
    /\ outcome = Nothing
    /\ BatchIdle
    /\ PortraitIdle
    /\ balance \in ImageBalances
    /\ balance0 = balance
    /\ planTier = "free"
    /\ uniqueEventIds = TRUE
    /\ stripeEvents = <<>>
    /\ transactions = <<>>
    /\ lpc = [p \in Tasks |-> "idle"]
    /\ loc = [p \in Tasks |-> IdleLoc]
    /\ hist = <<>>
    /\ opsStarted = 0
    /\ faults = 0
    /\ \E n \in 1..MaxScenes : generatedImage = [k \in 1..n |-> FALSE]
    /\ generatingIds = {}
    /\ stopSignalRef = FALSE
    /\ isBatchGenerating = FALSE
    /\ userTokens = ProfileTokens(balance)
    /\ run = [r \in Tasks |-> IdleRun]
    /\ units = <<>>

\* startBatchGeneration up to its first await (the start button is shown
\* while isBatchGenerating is false); runs take the task numbers in order
StartBatch(r) ==
    /\ ~isBatchGenerating
    /\ run[r].pc = "idle"
    /\ \A q \in Tasks : q < r => run[q].pc # "idle"
    /\ Len(ScenesToGen) > 0
    /\ Continue(r, [IdleRun EXCEPT !.scenesToGen = ScenesToGen, !.tokens = userTokens,
                                   !.generatingIds = generatingIds],
                FALSE, TRUE)
    /\ UNCHANGED <<generatedImage, generatingIds, userTokens, units, ledgerVars>>

\* stopBatchGeneration (the stop button is shown while isBatchGenerating)
StopBatch ==
    /\ isBatchGenerating
    /\ stopSignalRef' = TRUE
    /\ isBatchGenerating' = FALSE
    /\ run' = [r \in Tasks |->
                  IF run[r].pc \in {"validating", "generating", "debiting"}
                  THEN [run[r] EXCEPT !.stopRequested = TRUE,
                                      !.stopAt = IF run[r].stopRequested THEN @ ELSE run[r].i]
                  ELSE run[r]]
    /\ UNCHANGED <<generatedImage, generatingIds, userTokens, units, ledgerVars>>

\* generateSingle: validateTokensForGeneration returns; a valid unit goes on
\* to call generateSceneImage, an invalid one alerts and returns
GsValidate(r) ==
    /\ run[r].pc = "validating"
    /\ \E f \in FaultChoices :
        /\ CountFault(f)
        /\ IF ValidateTokens(f, balance, COST_PER_IMAGE)
           THEN /\ generatingIds' = generatingIds \cup {CurrentScene(r)}
                /\ run' = [run EXCEPT ![r].pc = "generating",
                                      ![r].validated = TRUE,
                                      ![r].callsAfterStop =
                                          @ + (IF run[r].stopRequested /\ run[r].i > run[r].stopAt
                                               THEN 1 ELSE 0)]
                /\ UNCHANGED <<stopSignalRef, isBatchGenerating, units>>
           ELSE /\ units' = Append(units,
                        MkUnit(r, CurrentScene(r), FALSE, FALSE, 0, FALSE, FALSE))
                /\ Continue(r, [run[r] EXCEPT !.i = @ + 1], stopSignalRef, isBatchGenerating)
                /\ UNCHANGED generatingIds
    /\ UNCHANGED <<generatedImage, userTokens, ledgerButFaults>>

GsGenerateChargesFailure(r, ok) ==
    /\ run[r].pc = "generating"
    /\ StartDeduct(r, ImageOpsCap)
    /\ run' = [run EXCEPT ![r].pc = "debiting", ![r].generated = ok,
                          ![r].debitCalls = @ + 1]
    /\ UNCHANGED <<generatedImage, generatingIds, stopSignalRef,
                   isBatchGenerating, userTokens, units>>

\* generateSingle: generateSceneImage settles; on success deductTokensForImage
\* is called, on failure the catch and finally blocks run
GsGenerate(r, ok) ==
    /\ run[r].pc = "generating"
    /\ IF ok
       THEN /\ StartDeduct(r, ImageOpsCap)
            /\ run' = [run EXCEPT ![r].pc = "debiting", ![r].generated = TRUE,
                                  ![r].debitCalls = @ + 1]
            /\ UNCHANGED <<generatedImage, generatingIds, stopSignalRef,
                           isBatchGenerating, userTokens, units>>
       ELSE /\ generatingIds' = generatingIds \ {CurrentScene(r)}
            /\ units' = Append(units,
                    MkUnit(r, CurrentScene(r), TRUE, FALSE, run[r].debitCalls, FALSE, FALSE))
            /\ Continue(r, [run[r] EXCEPT !.i = @ + 1], stopSignalRef, isBatchGenerating)
            /\ UNCHANGED <<generatedImage, userTokens, ledgerVars>>

AfterDebitStepDiscards(r) ==
    IF lpc'[r] = "idle"
    THEN /\ generatedImage' = [generatedImage EXCEPT ![CurrentScene(r)] = hist'[Len(hist')].ok]
         /\ generatingIds' = generatingIds \ {CurrentScene(r)}
         /\ units' = Append(units,
                 MkUnit(r, CurrentScene(r), TRUE, run[r].generated, run[r].debitCalls,
                        hist'[Len(hist')].ok, hist'[Len(hist')].ok))
         /\ Continue(r, [run[r] EXCEPT !.i = @ + 1], stopSignalRef, isBatchGenerating)
         /\ UNCHANGED userTokens
    ELSE UNCHANGED imageVars

\* generateSingle once a step of deductTokensForImage is done: when the debit
\* has returned (whatever its result) the image is stored on the scene, the
\* finally block runs and the batch loop goes on
AfterDebitStep(r) ==
    IF lpc'[r] = "idle"
    THEN /\ generatedImage' = [generatedImage EXCEPT ![CurrentScene(r)] = TRUE]
         /\ generatingIds' = generatingIds \ {CurrentScene(r)}
         /\ units' = Append(units,
                 MkUnit(r, CurrentScene(r), TRUE, run[r].generated, run[r].debitCalls,
                        hist'[Len(hist')].ok, TRUE))
         /\ Continue(r, [run[r] EXCEPT !.i = @ + 1], stopSignalRef, isBatchGenerating)
         /\ UNCHANGED userTokens
    ELSE UNCHANGED imageVars

GsDebitRpc(r) ==
    /\ run[r].pc = "debiting"
    /\ DtRpc(r)
    /\ AfterDebitStep(r)

GsDebitLog(r) ==
    /\ run[r].pc = "debiting"
    /\ DtLog(r)
    /\ AfterDebitStep(r)

ImageNext ==
    \/ \E r \in Tasks : StartBatch(r) /\ UNCHANGED <<retryVars, batchVars, portraitVars>>
    \/ StopBatch /\ UNCHANGED <<retryVars, batchVars, portraitVars>>
    \/ \E r \in Tasks : GsValidate(r) /\ UNCHANGED <<retryVars, batchVars, portraitVars>>
    \/ \E r \in Tasks, ok \in BOOLEAN :
           GsGenerate(r, ok) /\ UNCHANGED <<retryVars, batchVars, portraitVars>>
    \/ \E r \in Tasks : GsDebitRpc(r) /\ UNCHANGED <<retryVars, batchVars, portraitVars>>
    \/ \E r \in Tasks : GsDebitLog(r) /\ UNCHANGED <<retryVars, batchVars, portraitVars>>

SpecImage == ImageInit /\ [][ImageNext]_vars

\* one batch run, stopped or not
ImageOneNext ==
    \/ StartBatch(1) /\ UNCHANGED <<retryVars, batchVars, portraitVars>>
    \/ StopBatch /\ UNCHANGED <<retryVars, batchVars, portraitVars>>
    \/ GsValidate(1) /\ UNCHANGED <<retryVars, batchVars, portraitVars>>
    \/ \E ok \in BOOLEAN : GsGenerate(1, ok) /\ UNCHANGED <<retryVars, batchVars, portraitVars>>
    \/ GsDebitRpc(1) /\ UNCHANGED <<retryVars, batchVars, portraitVars>>
    \/ GsDebitLog(1) /\ UNCHANGED <<retryVars, batchVars, portraitVars>>

SpecImageOne == ImageInit /\ [][ImageOneNext]_vars

(***************************************************************************)
(* Properties of the token ledger                                          *)
(***************************************************************************)
IsDebit(h) == h.op \in {"consume", "deduct"}

IsCredit(h) == h.op = "webhook" /\ h.wrote

AllIdle == \A p \in Tasks : lpc[p] = "idle"

RECURSIVE SumOkDebits(_)
\* the sum of the costs of the debits of h that reported success
SumOkDebits(h) ==
    IF h = <<>> THEN 0
    ELSE (IF IsDebit(Head(h)) /\ Head(h).ok THEN Head(h).amount ELSE 0) + SumOkDebits(Tail(h))

\* C2 (debits one after the other, specification SpecDebitSeq): the
\* balance is never negative; a debit whose cost exceeds the balance before
\* it fails and leaves the balance unchanged; a debit that succeeds lowers
\* the balance by exactly its cost; from balance 12, three debits of cost 5
\* give 7, 2 and then a failure with the balance still 2.
C2_DebitNeverOverdraws ==
    /\ balance >= 0
    /\ \A k \in 1..Len(hist) :
           IsDebit(hist[k]) =>
               /\ hist[k].s1 >= 0
               /\ hist[k].amount > hist[k].s0 => (~hist[k].ok /\ hist[k].s1 = hist[k].s0)
               /\ hist[k].ok => /\ hist[k].s1 = hist[k].s0 - hist[k].amount
                                /\ hist[k].before = hist[k].s0
                                /\ hist[k].after = hist[k].s1
    /\ (/\ balance0 = 12
        /\ faults = 0
        /\ Len(hist) = 3
        /\ \A k \in 1..3 : IsDebit(hist[k]) /\ hist[k].amount = 5)
           => /\ hist[1].ok /\ hist[1].s1 = 7
              /\ hist[2].ok /\ hist[2].s1 = 2
              /\ ~hist[3].ok /\ hist[3].s0 = 2 /\ hist[3].s1 = 2

C2_Witness ==
    /\ balance0 = 12
    /\ faults = 0
    /\ Len(hist) = 3
    /\ hist[1].op = "consume" /\ hist[1].ok /\ hist[1].s1 = 7
    /\ hist[2].op = "deduct" /\ hist[2].ok /\ hist[2].s1 = 2
    /\ hist[3].op = "consume" /\ ~hist[3].ok /\ hist[3].err = "Insufficient tokens"
    /\ balance = 2

\* C3 (two tasks, specification SpecLedger): under every interleaving of
\* concurrent debits the balance never becomes negative, and once all debits
\* have returned the balance equals the initial balance minus the sum of the
\* costs of the debits that reported success.
C3_NoLostDecrement ==
    /\ balance >= 0
    /\ (/\ AllIdle
        /\ faults = 0
        /\ \A k \in 1..Len(hist) : IsDebit(hist[k]))
           => balance = balance0 - SumOkDebits(hist)

\* C4: delivering the same verified payment-succeeded event two or more times
\* applies exactly one credit: at most one delivery of an event id changes
\* the balance (stated for the top-up and the two plan-upgrade events).
C4_OneCreditPerEvent ==
    \A e \in {EvTopup, EvStd, EvPrem} :
        Cardinality({k \in 1..Len(hist) :
                        /\ hist[k].op = "webhook"
                        /\ hist[k].type = "payment_intent.succeeded"
                        /\ hist[k].ev = e.id
                        /\ hist[k].changed}) <= 1

\* C5: for every credit of the webhook (top-up or plan upgrade) the delta
\* applied to the balance equals min(nominalAmount, ceiling - balanceBefore)
\* and is >= 0, so that a credit never lowers the balance.
C5_AppliedDelta ==
    \A k \in 1..Len(hist) :
        (IsCredit(hist[k]) /\ hist[k].type = "payment_intent.succeeded") =>
            /\ hist[k].after - hist[k].before
                   = Min(hist[k].amount, hist[k].ceiling - hist[k].before)
            /\ hist[k].after - hist[k].before >= 0

\* C6: the balance is never negative, and after any credit (top-up, plan
\* upgrade or the compensating credit of a refund) the balance does not
\* exceed the ceiling of the account's plan tier.
C6_BalanceWithinCeiling ==
    /\ balance >= 0
    /\ \A k \in 1..Len(hist) :
           IsCredit(hist[k]) => hist[k].after <= Ceiling(hist[k].tierAfter)

\* C13: a webhook request whose signature does not verify is answered 400
\* and changes nothing: no event row is inserted, balance and plan tier stay,
\* no ledger transaction is created or updated.
C13_BadSignatureRejected ==
    /\ [](\A k \in 1..Len(stripeEvents) : stripeEvents[k].id # ForgedEvent.id)
    /\ [][(Len(hist') = Len(hist) + 1 /\ hist'[Len(hist')].ev = ForgedEvent.id) =>
             /\ hist'[Len(hist')].status = 400
             /\ ~hist'[Len(hist')].ok
             /\ UNCHANGED <<balance, planTier, stripeEvents, transactions>>]_vars

C13_Witness ==
    /\ Len(hist) = 2
    /\ hist[1].ev = EvTopup.id /\ hist[1].status = 200
    /\ hist[2].ev = ForgedEvent.id /\ hist[2].status = 400
    /\ balance = hist[1].s1
    /\ Len(stripeEvents) = 1

(***************************************************************************)
(* Properties of the image generator (specification SpecImage)             *)
(***************************************************************************)
\* C14: once a stop has been requested during a batch image run, that run
\* starts no generation call for a further unit.
C14_StoppedRunStartsNothing ==
    \A r \in Tasks : run[r].callsAfterStop = 0

\* C15: a generateSingle call invokes deductTokensForImage exactly once when
\* the image generation call succeeded and not at all when generation failed
\* or validation rejected the unit; one debit call decrements the balance at
\* most once, by the cost of one image.
C15_DebitOncePerGeneratedUnit ==
    /\ \A k \in 1..Len(units) :
           /\ units[k].generated => units[k].debitCalls = 1
           /\ ~units[k].generated => units[k].debitCalls = 0
           /\ ~units[k].validated => ~units[k].generated
    /\ \A r \in Tasks :
           /\ run[r].pc \in {"validating", "generating"} => run[r].debitCalls = 0
           /\ run[r].pc = "debiting" => (run[r].debitCalls = 1 /\ run[r].generated)
    /\ opsStarted = Len(hist) + Cardinality({p \in Tasks : lpc[p] # "idle"})
    /\ balance = balance0 - COST_PER_IMAGE *
                     (Cardinality({k \in 1..Len(hist) : hist[k].ok})
                      + Cardinality({p \in Tasks : lpc[p] = "dt_log"}))

C15_Witness ==
    /\ \E k \in 1..Len(units) : units[k].generated /\ units[k].debitOk
    /\ \E k \in 1..Len(units) : units[k].validated /\ ~units[k].generated
    /\ \E k \in 1..Len(units) : ~units[k].validated
    /\ balance = balance0 - COST_PER_IMAGE

(***************************************************************************)
(* Properties of the payment webhook (specification SpecWebhookSeq)        *)
(***************************************************************************)
\* C16: the ledger transaction of a top-up or plan-upgrade credit carries the
\* delta actually applied to the balance (balanceAfter - balanceBefore), not
\* the nominal amount purchased, also when the plan ceiling clips the credit.
C16_TxCarriesClippedDelta ==
    \A k \in 1..Len(transactions) :
        transactions[k].status = "COMPLETED" =>
            transactions[k].delta = transactions[k].after - transactions[k].before

RefundedAmount(id) ==
    IF id = EvRefund.id THEN EvRefund.amountRefunded ELSE EvRefundSmall.amountRefunded

\* the refund deliveries during which no store call reported an error
CleanRefunds ==
    {k \in 1..Len(hist) : hist[k].type = "charge.refunded" /\ hist[k].err = ""}

\* C17 (deliveries one after the other, no store call of the delivery
\* failing): a verified refund event for refunded amount A never decreases the
\* balance; it credits floor(A / 100000) * 1000 tokens and records one ledger
\* transaction of kind refund whose balanceBefore and balanceAfter are the
\* balances before and after that credit.
C17_RefundCredits ==
    /\ \A k \in CleanRefunds :
           LET credit == (RefundedAmount(hist[k].ev) \div 100000) * 1000
           IN  /\ hist[k].status = 200
               /\ hist[k].s1 >= hist[k].s0
               /\ hist[k].s1 = hist[k].s0 + credit
               /\ \E j \in 1..Len(transactions) :
                      /\ transactions[j].type = "refund"
                      /\ transactions[j].before = hist[k].s0
                      /\ transactions[j].after = hist[k].s1
                      /\ transactions[j].delta = credit
    /\ AllIdle =>
           Cardinality({j \in 1..Len(transactions) : transactions[j].type = "refund"})
               = Cardinality(CleanRefunds)

C17_Witness ==
    /\ Len(hist) = 2
    /\ hist[1].ev = EvRefund.id /\ hist[1].err = ""
    /\ hist[2].ev = EvRefundSmall.id /\ hist[2].err = ""
    /\ balance = balance0 + 2000
    /\ Len(transactions) = Len(InitialTransactions) + 2

\* C18: a verified payment-failed event changes neither the balance nor the
\* plan tier; all it does to the ledger is to annotate the pending
\* transaction of its payment intent with the failure.
C18_PaymentFailedFrame ==
    [][\A p \in Tasks :
          (loc[p].ev.type = "payment_intent.payment_failed" /\ lpc'[p] # lpc[p]) =>
              /\ UNCHANGED <<balance, planTier>>
              /\ Len(transactions') = Len(transactions)
              /\ \A j \in 1..Len(transactions) :
                     \/ transactions'[j] = transactions[j]
                     \/ /\ transactions[j].intent = loc[p].ev.intent
                        /\ transactions'[j] = [transactions[j] EXCEPT !.status = "FAILED"]]_vars

C18_Witness ==
    /\ Len(hist) = 1
    /\ hist[1].ev = EvFailed.id
    /\ hist[1].status = 200
    /\ hist[1].err = ""
    /\ balance = balance0
    /\ \E j \in 1..Len(transactions) :
           transactions[j].intent = EvFailed.intent /\ transactions[j].status = "FAILED"
    /\ \E j \in 1..Len(transactions) : transactions[j].status = "pending"

\* the errors with which a payment event fails to apply its effect
EffectErrors ==
    {"No userId in payment intent metadata", "User not found", "Failed to update user",
     "User not found for refund", "Failed to update balance for refund"}

\* the deliveries of event id that failed to apply the event's effect
FailedDeliveries(id) ==
    {k \in 1..Len(hist) : hist[k].ev = id /\ hist[k].err \in EffectErrors}

LastDelivery(id) ==
    CHOOSE k \in 1..Len(hist) :
        hist[k].ev = id /\ \A m \in 1..Len(hist) : hist[m].ev = id => m <= k

\* C19: when the processing of a verified payment event fails to apply its
\* effect (user not found, store update error, missing user id) the failure is
\* kept on the event record: the event is not marked processed by the failed
\* delivery, and once the record carries an error message its retry counter
\* equals the number of failed deliveries.
C19_FailuresRecorded ==
    AllIdle =>
        \A j \in 1..Len(stripeEvents) :
            LET id == stripeEvents[j].id
                fails == FailedDeliveries(id)
            IN  fails # {} =>
                    /\ LastDelivery(id) \in fails => ~stripeEvents[j].processed
                    /\ stripeEvents[j].errorMessage # "" =>
                           stripeEvents[j].retryCount = Cardinality(fails)

(***************************************************************************)
(* Properties of the ledger records (specification SpecLedgerSeq)          *)
(***************************************************************************)
\* the rows of token_transactions that stand for a balance mutation
MutationRecords ==
    {j \in 1..Len(transactions) : transactions[j].status \notin {"pending", "FAILED"}}

\* the completed operations that committed a write of the balance
CommittedMutations ==
    {k \in 1..Len(hist) : IF IsDebit(hist[k]) THEN hist[k].ok ELSE hist[k].wrote}

\* C20: there is exactly one ledger transaction record for every committed
\* balance mutation (successful debit, applied credit, refund credit) and none
\* for a mutation that was not committed; every record satisfies
\* balanceAfter = balanceBefore + amountDelta.
C20_OneRecordPerMutation ==
    /\ \A j \in MutationRecords :
           transactions[j].after = transactions[j].before + transactions[j].delta
    /\ AllIdle => Cardinality(MutationRecords) = Cardinality(CommittedMutations)

(***************************************************************************)
(* Further properties of generateStoryboardScenes (specification           *)
(* SpecBatch)                                                              *)
(***************************************************************************)
\* C21: batches are processed in ascending order, one at a time: the prompt of
\* a batch is built only after the scenes of the batch before were appended;
\* the first batch carries no continuity preamble and every later batch's
\* preamble references the unit with id startId - 1.
C21_PreambleReferencesPrevious ==
    \A k \in 1..Len(prompts) :
        /\ k = 1 => prompts[k].contextId = 0
        /\ k > 1 => /\ prompts[k].startId > prompts[k - 1].startId
                    /\ prompts[k].contextId = prompts[k].startId - 1

\* C22: every unit of a batch gets id startId + its zero-based position in
\* the batch, and the ids of the merged list are pairwise distinct and strictly
\* ascending, also when the service returns more or fewer units than asked.
C22_IdsDistinctAscending ==
    /\ \A k \in 1..Len(allScenes) :
           allScenes[k].id =
               allScenes[k].batchStart
                   + Cardinality({m \in 1..(k - 1) :
                                      allScenes[m].batchStart = allScenes[k].batchStart})
    /\ \A k \in 1..(Len(allScenes) - 1) : allScenes[k].id < allScenes[k + 1].id

\* C23: a batch response that is not the expected structured shape (text that
\* is not JSON, no text, a bare JSON array, an object without scenes) fails the
\* batch and the job with the parse error, and the generation call of that
\* batch is not invoked again.
C23_BadShapeFailsJob ==
    (/\ bpc \notin {"idle", "calling"}
     /\ outcome.kind = "ok"
     /\ outcome.val.body \in {"garbage", "undefined", "array", "noscenes"})
        => /\ bpc \in {"failed", "alerted"}
           /\ jobResult.kind = "err"
           /\ jobResult.err = ParseError
           /\ rpc = "returned"

(***************************************************************************)
(* Further properties of the image generator                               *)
(***************************************************************************)
\* C24 (specification SpecImageOne): generateSingle issues the generation call
\* of a unit only after validateTokensForGeneration returned valid for it;
\* when the balance is below the cost or cannot be read there is no generation
\* call and no debit and generateSingle returns normally; validation never
\* changes the balance.
C24_ValidateBeforeGenerate ==
    /\ [](/\ \A r \in Tasks :
                run[r].pc \in {"generating", "debiting"} => run[r].validated
          /\ \A k \in 1..Len(units) :
                ~units[k].validated =>
                    /\ ~units[k].generated
                    /\ units[k].debitCalls = 0
                    /\ ~units[k].stored)
    /\ [][\A r \in Tasks :
             (run[r].pc = "validating" /\ run'[r].pc # "validating") =>
                 /\ balance' = balance
                 /\ run'[r].pc = "generating" <=>
                        (balance >= COST_PER_IMAGE /\ faults' = faults)
                 /\ run'[r].pc # "generating" =>
                        /\ opsStarted' = opsStarted
                        /\ Len(units') = Len(units) + 1
                        /\ ~units'[Len(units')].validated]_vars

C24_Witness ==
    /\ Len(units) = 2
    /\ units[1].validated /\ units[1].stored /\ units[1].debitOk
    /\ ~units[2].validated
    /\ balance0 = 7
    /\ balance = 2
    /\ opsStarted = 1

\* C25 (specification SpecImageOne): when the debit after a successful image
\* generation fails, the generated image is still stored on its scene,
\* generateSingle returns normally and the failed debit leaves the balance as
\* it was.
C25_FailedDebitKeepsImage ==
    /\ \A k \in 1..Len(units) :
           (units[k].generated /\ ~units[k].debitOk) =>
               /\ units[k].stored
               /\ generatedImage[units[k].scene]
    /\ \A k \in 1..Len(hist) :
           (hist[k].op = "deduct" /\ ~hist[k].ok) => (~hist[k].wrote /\ ~hist[k].changed)
    /\ balance0 - balance =
           COST_PER_IMAGE * (Cardinality({k \in 1..Len(units) : units[k].debitOk})
                             + Cardinality({p \in Tasks : lpc[p] = "dt_log"}))

C25_Witness ==
    /\ Len(units) = 1
    /\ units[1].generated
    /\ ~units[1].debitOk
    /\ units[1].stored
    /\ generatedImage[units[1].scene]
    /\ balance = balance0
    /\ run[1].pc \in {"validating", "finished"}

\* C26 (specification SpecImageOne): the client-held balance user.tokens is
\* refreshed from the store after every completed debit, so that between
\* operations it equals the stored balance.
C26_CacheFollowsStore ==
    (/\ AllIdle
     /\ \A r \in Tasks : run[r].pc \in {"idle", "finished"}
     /\ \E k \in 1..Len(units) : units[k].debitOk)
        => userTokens = balance

(***************************************************************************)
(* Further properties of generateImagesForAllCharacters (specification     *)
(* SpecPortrait)                                                           *)
(***************************************************************************)
\* C27: the units of the portrait job are issued in consecutive groups of at
\* most 3 (7 units: groups 1-3, 4-6, 7): at most 3 generation calls are in
\* flight, and no unit of the next group is started before every unit of the
\* current group has settled, whatever the order of completion in a group.
C27_GroupsOfThree ==
    /\ Cardinality(running) <= 3
    /\ ci % 3 = 0
    /\ ppc # "chunk" => running = {}
    /\ \A u \in running : ci < u /\ u <= ci + 3
    /\ \A u \in 1..Len(updatedChars) :
           /\ (u <= ci /\ ppc # "thrown") =>
                  (updatedChars[u].referenceImage = "none" <=> u \in failing)
           /\ (u > ci + 3 \/ (u > ci /\ ppc = "loop")) =>
                  updatedChars[u].referenceImage # "new"
    /\ (Len(updatedChars) = 7 /\ ppc = "chunk") =>
           {u \in 1..7 : ci < u /\ u <= ci + 3} \in {{1, 2, 3}, {4, 5, 6}, {7}}

C27_Witness ==
    /\ Len(updatedChars) = 7
    /\ ppc = "chunk"
    /\ ci = 6
    /\ running = {7}
    /\ failing = {5}
    /\ \A u \in {1, 2, 3, 4, 6} : updatedChars[u].referenceImage = "new"

(***************************************************************************)
(* Debits and webhook credits on one account (specification SpecLedger)    *)
(***************************************************************************)
RECURSIVE SumAppliedCredits(_)
\* the sum, over the webhook deliveries of h that wrote the balance, of the
\* change each of them applied (written balance minus balance read)
SumAppliedCredits(h) ==
    IF h = <<>> THEN 0
    ELSE (IF IsCredit(Head(h)) THEN Head(h).after - Head(h).before ELSE 0)
             + SumAppliedCredits(Tail(h))

\* C28: no balance update is lost when a webhook credit (payment succeeded or
\* refund) interleaves with a debit: once both have returned, the balance is
\* the initial balance minus the successful debits plus the applied credits.
C28_NoLostUpdateAcrossPaths ==
    (/\ AllIdle
     /\ faults = 0
     /\ \E k \in 1..Len(hist) : IsDebit(hist[k])
     /\ \E k \in 1..Len(hist) : IsCredit(hist[k]))
        => balance = balance0 - SumOkDebits(hist) + SumAppliedCredits(hist)

(***************************************************************************)
(* Restarting a batch image run (specification SpecImage)                  *)
(***************************************************************************)
\* the batch runs that still have a generateSingle call pending
ActiveRuns == {r \in Tasks : run[r].pc \in {"validating", "generating", "debiting"}}

\* C29: at most one batch image run is active at a time, and no scene is
\* generated and debited by two runs: starting a new run after
\* stopBatchGeneration, while the stopped run's unit is still pending, leaves
\* the stopped run stopped.
C29_OneRunPerScene ==
    /\ Cardinality(ActiveRuns) <= 1
    /\ \A j, k \in 1..Len(units) :
           (/\ units[j].scene = units[k].scene
            /\ units[j].generated /\ units[k].generated
            /\ units[j].debitOk /\ units[k].debitOk)
               => units[j].run = units[k].run

(***************************************************************************)
(* create-payment-intent for a token top-up, and the delivery of the       *)
(* payment-succeeded event of the intent it created                        *)
(***************************************************************************)
\* PRICING.token_topup.tokens of create-payment-intent
TOPUP_TOKENS == 1000

\* topUp.tokens of STRIPE_PRICING, by plan tier; the free tier has no package
\* of its own and is given the standard one
TopUpPackage(tier) == IF tier = "pro_premium" THEN 3000 ELSE 1000

\* body.tokensAmount of the request; 0 stands for an absent field
TopupRequests == {0, 1000, 3000, 9000}

\* body.tokensAmount || PRICING.token_topup.tokens
TokenAmount(tokensAmount) == IF tokensAmount = 0 THEN TOPUP_TOKENS ELSE tokensAmount

\* String(tokenAmount)
StringOfTokens(n) ==
    CASE n = 1000 -> "1000"
      [] n = 3000 -> "3000"
      [] n = 9000 -> "9000"
      [] OTHER    -> "0"

\* paymentIntent.id of the intent created for a request
IntentOf(tokensAmount) ==
    CASE tokensAmount = 0    -> "pi_req_default"
      [] tokensAmount = 1000 -> "pi_req_1000"
      [] tokensAmount = 3000 -> "pi_req_3000"
      [] OTHER               -> "pi_req_9000"

\* the payment_intent.succeeded event of that intent: it carries the metadata
\* the intent was created with
TopupSucceeded(tokensAmount) ==
    MkEvent(IntentOf(tokensAmount), "payment_intent.succeeded", TRUE, "",
            StringOfTokens(TokenAmount(tokensAmount)), 0, TRUE, IntentOf(tokensAmount))

\* an intent has been created for the request
Created(tokensAmount) ==
    \E k \in 1..Len(transactions) : transactions[k].intent = IntentOf(tokensAmount)

\* the handler of create-payment-intent, type token_topup: 401 without a valid
\* token, 400 when the user row is not found, else the intent is created with
\* the fixed amount and the pending row is inserted
CreatePaymentIntent(auth, tokensAmount) ==
    /\ auth
    /\ ~Created(tokensAmount)
    /\ \E f \in FaultChoices :
        /\ CountFault(f)
        /\ transactions' = IF f THEN transactions
                           ELSE Append(transactions,
                                       PendingTx("token_topup", IntentOf(tokensAmount)))
    /\ UNCHANGED <<balance, planTier, balance0, uniqueEventIds, stripeEvents,
                   lpc, loc, hist, opsStarted>>

TopupStep(p, cap) ==
    \/ \E auth \in BOOLEAN, n \in TopupRequests : CreatePaymentIntent(auth, n)
    \/ \E n \in TopupRequests : Created(n) /\ StartWebhook(p, TopupSucceeded(n), TRUE, cap)
    \/ WhInsert(p)
    \/ PsRead(p)
    \/ PsUpdate(p)
    \/ PsTx(p)
    \/ WhMark(p)
    \/ WhCatch(p)

\* top-up requests and the deliveries of their payment-succeeded events
TopupNext == TopupStep(1, MaxDeliveries) /\ UNCHANGED <<retryVars, batchVars, clientVars>>

SpecTopup == LedgerInit /\ [][TopupNext]_vars

\* C30 (specification SpecTopup): the tokens credited for a top-up payment are
\* fixed by what was charged: for the fixed top-up price, the tokens added on
\* payment success never exceed the top-up package of the user's plan,
\* whatever tokensAmount the create-payment-intent request carried.
C30_TopupWithinPackage ==
    \A k \in 1..Len(hist) :
        (/\ hist[k].op = "webhook"
         /\ hist[k].wrote
         /\ \E n \in TopupRequests : hist[k].ev = IntentOf(n))
            => /\ hist[k].amount <= TopUpPackage(hist[k].tierAfter)
               /\ hist[k].after - hist[k].before <= TopUpPackage(hist[k].tierAfter)

====
